---- MODULE Spec2Model ----
(***************************************************************************)
(* Model of the two algorithmic pieces of cold-case-crawler:               *)
(*   - src/src/utils/retry.py      with_retry (exponential backoff)        *)
(*   - src/src/services/debate.py  DebateEngine.generate_debate            *)
(* Time is counted in integer units of the delay (a float multiplied by a  *)
(* power of two is exact, so integer units lose nothing).                  *)
(***************************************************************************)
EXTENDS Integers, Sequences, FiniteSets, TLC

\* ------------------------------------------------------------------ bounds
MaxAttemptsBound == 3
MaxBaseDelay == 2
MaxExchanges == 4
MaxLines == 6
MaxRunExchanges == 2
MaxLongExchanges == 16
MaxHooks == 3
MaxChapters == 3
MaxLimit == 3

\* --------------------------------------------------------------- variables
VARIABLES
  \* with_retry(max_attempts, base_delay, exceptions): the decorator's arguments
  max_attempts, base_delay, exceptions,
  \* one entry per call of the wrapped operation (wrapper invocation)
  rpc,              \* position of the call: idle, invoke, sleep, returned, raised
  attempt,          \* the loop variable of "for attempt in range(max_attempts)"
  last_exception,   \* the local last_exception
  recorded_delays,  \* the delays handed to asyncio.sleep, in order
  func_calls,       \* the outcomes of the invocations of func made by the call
  result,           \* the value the wrapper returned
  raised,           \* the exception the wrapper raised
  \* DebateEngine.generate_debate(case, num_exchanges): one run
  num_exchanges,
  dpc,              \* position of the run: idle, maya_run, thorne_run, returned, raised
  exchange_num,     \* the loop variable of "for exchange_num in range(num_exchanges)"
  dialogue_lines,   \* the local list dialogue_lines
  prompts,          \* the prompts handed to maya.run / thorne.run, in order
  outcomes,         \* what each maya.run / thorne.run call came back with, in order
  script,           \* the PodcastScript returned to the caller
  error,            \* the exception raised to the caller
  \* generate_debate runs that interleave on one DebateEngine (one event loop)
  current,          \* the run whose coroutine is executing
  frames,           \* the locals of the runs suspended at an await
  \* VideoService.generate_all_clips(script, audio_url)
  vpc,              \* position: idle, clip, returned, raised
  hook_idx,         \* idx of "for idx, hook in enumerate(script.social_hooks)"
  video_urls,       \* the local list video_urls
  clip_calls,       \* the hooks handed to generate_clip, in order
  clip_results,     \* what each generate_clip call ended with, in order
  video_error,      \* the exception generate_all_clips raised
  \* AudioService.generate_episode(script)
  apc,              \* position: idle, synth, upload, returned, raised
  line_idx,         \* idx of "for idx, line in enumerate(script.chapters)"
  audio_segments,   \* the local list audio_segments
  synth_calls,      \* the lines handed to synthesize_dialogue, in order
  synth_results,    \* what each synthesize_dialogue call ended with, in order
  uploads,          \* the audio data handed to _upload_to_storage
  audio_url,        \* the URL generate_episode returned
  audio_error,      \* the exception generate_episode raised
  \* DatabaseService on a Supabase client
  cases_table,      \* the rows of table "cases", in insertion order
  evidence_table,   \* the rows of table "evidence", in insertion order
  created_cases,    \* the CaseFiles create_case was called with and returned for
  db_result,        \* the last query made and what it returned
  \* a background job of api/routes.py
  jpc,              \* position: idle, running, done
  job,              \* the job type, the step in progress and the cases found
  status_updates,   \* the statuses handed to update_job_status, in order
  step_failures     \* the steps of the run that raised, in order

retry_vars == <<max_attempts, base_delay, exceptions, rpc, attempt, last_exception,
                recorded_delays, func_calls, result, raised>>

debate_vars == <<num_exchanges, dpc, exchange_num, dialogue_lines, prompts, outcomes,
                 script, error>>

run_vars == <<current, frames>>

video_vars == <<vpc, hook_idx, video_urls, clip_calls, clip_results, video_error>>

audio_vars == <<apc, line_idx, audio_segments, synth_calls, synth_results, uploads,
                audio_url, audio_error>>

db_vars == <<cases_table, evidence_table, created_cases, db_result>>

job_vars == <<jpc, job, status_updates, step_failures>>

service_vars == <<run_vars, video_vars, audio_vars, db_vars, job_vars>>

vars == <<retry_vars, debate_vars, service_vars>>

\* ------------------------------------------------------------ retry: data
\* The calls of one wrapped operation whose attempts and sleeps may interleave.
\* They share nothing but the decorator arguments, so two of them show every
\* interleaving a call can see.
Calls == {1, 2}

\* Exception classes an operation may raise (tests/property/test_retry.py uses both).
ErrorKinds == {"ValueError", "TypeError"}

\* Values an operation may return.
Values == {"success", "other"}

\* The exceptions tuple: (ValueError,) as in test_only_catches_specified_exceptions,
\* or the default (Exception,).
ExceptionTuples == {{"ValueError"}, {"Exception"}}

\* issubclass(k, t): ValueError and TypeError derive from Exception;
\* asyncio.CancelledError derives from BaseException only.
IsSubclass(k, t) == k = t \/ (t = "Exception" /\ k # "CancelledError")

NoException == [kind |-> "None", call |-> 0, n |-> 0]
NoValue == "None"

\* The exception object raised by the n-th invocation of func made by call c.
ExceptionObject(k, c, n) == [kind |-> k, call |-> c, n |-> n]

Succeeded(v) == [ok |-> TRUE, value |-> v, exc |-> NoException]
Failed(e) == [ok |-> FALSE, value |-> NoValue, exc |-> e]

RECURSIVE Pow2(_)
Pow2(n) == IF n = 0 THEN 1 ELSE 2 * Pow2(n - 1)

\* ------------------------------------------------------- retry: the code
\* The frame holding the locals of one wrapper invocation: each call has its own.
FrameShared(c) == 1
Frame(c) == c

\* except exceptions as e: e is an instance of one of the classes of the tuple
IsCaughtAll(e) == TRUE
IsCaught(e) == \E t \in exceptions : IsSubclass(e.kind, t)

\* if attempt < max_attempts - 1
ShouldSleepAlways(a) == TRUE
ShouldSleep(a) == a < max_attempts - 1

\* delay = base_delay * (2**attempt)
DelayTimesTwo(a) == base_delay * (2 * a)
Delay(a) == base_delay * Pow2(a)

\* for attempt in range(max_attempts): is there an iteration after a?
RangeHasNextOffByOne(a) == a + 1 <= max_attempts
RangeHasNext(a) == a + 1 < max_attempts

\* last_exception = e
KeepFirst(old, e) == IF old = NoException THEN e ELSE old
Remember(old, e) == e

\* The end of a loop iteration that did not return: the next iteration, or,
\* with the range exhausted, raise last_exception (line 49).
NextIteration(c, last) ==
  IF RangeHasNext(attempt[Frame(c)])
    THEN /\ attempt' = [attempt EXCEPT ![Frame(c)] = @ + 1]
         /\ rpc' = [rpc EXCEPT ![c] = "invoke"]
         /\ UNCHANGED raised
    ELSE /\ rpc' = [rpc EXCEPT ![c] = "raised"]
         /\ raised' = [raised EXCEPT ![c] = last]
         /\ UNCHANGED attempt

\* wrapper is called: last_exception = None, first iteration of the loop.
WrapperCalled(c) ==
  /\ rpc[c] = "idle"
  /\ last_exception' = [last_exception EXCEPT ![Frame(c)] = NoException]
  /\ attempt' = [attempt EXCEPT ![Frame(c)] = 0]
  /\ rpc' = [rpc EXCEPT ![c] = "invoke"]
  /\ UNCHANGED <<max_attempts, base_delay, exceptions, recorded_delays, func_calls,
                 result, raised>>
  /\ UNCHANGED <<debate_vars, service_vars>>

\* A bug: the value is kept but the loop goes on.
FuncReturnsNoReturn(c, v) ==
  /\ rpc[c] = "invoke"
  /\ func_calls' = [func_calls EXCEPT ![c] = Append(@, Succeeded(v))]
  /\ result' = [result EXCEPT ![c] = v]
  /\ NextIteration(c, last_exception[Frame(c)])
  /\ UNCHANGED <<max_attempts, base_delay, exceptions, last_exception, recorded_delays>>
  /\ UNCHANGED <<debate_vars, service_vars>>

\* return await func(*args, **kwargs): func returns v
FuncReturns(c, v) ==
  /\ rpc[c] = "invoke"
  /\ func_calls' = [func_calls EXCEPT ![c] = Append(@, Succeeded(v))]
  /\ result' = [result EXCEPT ![c] = v]
  /\ rpc' = [rpc EXCEPT ![c] = "returned"]
  /\ UNCHANGED <<max_attempts, base_delay, exceptions, attempt, last_exception,
                 recorded_delays, raised>>
  /\ UNCHANGED <<debate_vars, service_vars>>

\* await func(*args, **kwargs) raises an exception of kind k
FuncRaises(c, k) ==
  /\ rpc[c] = "invoke"
  /\ LET e == ExceptionObject(k, c, Len(func_calls[c]) + 1)
         last == Remember(last_exception[Frame(c)], e)
     IN /\ func_calls' = [func_calls EXCEPT ![c] = Append(@, Failed(e))]
        /\ IF IsCaught(e)
             THEN /\ last_exception' = [last_exception EXCEPT ![Frame(c)] = last]
                  /\ IF ShouldSleep(attempt[Frame(c)])
                       THEN \* await asyncio.sleep(delay)
                            /\ recorded_delays' = [recorded_delays EXCEPT ![c] =
                                                  Append(@, Delay(attempt[Frame(c)]))]
                            /\ rpc' = [rpc EXCEPT ![c] = "sleep"]
                            /\ UNCHANGED <<attempt, raised>>
                       ELSE \* logger.error(...), end of the iteration
                            /\ NextIteration(c, last)
                            /\ UNCHANGED recorded_delays
             ELSE \* not caught: the exception leaves the wrapper
                  /\ rpc' = [rpc EXCEPT ![c] = "raised"]
                  /\ raised' = [raised EXCEPT ![c] = e]
                  /\ UNCHANGED <<attempt, last_exception, recorded_delays>>
  /\ UNCHANGED <<max_attempts, base_delay, exceptions, result>>
  /\ UNCHANGED <<debate_vars, service_vars>>

\* asyncio.sleep(delay) completes: end of the iteration
SleepDone(c) ==
  /\ rpc[c] = "sleep"
  /\ NextIteration(c, last_exception[Frame(c)])
  /\ UNCHANGED <<max_attempts, base_delay, exceptions, last_exception, recorded_delays,
                 func_calls, result>>
  /\ UNCHANGED <<debate_vars, service_vars>>

\* A run of generate_debate before it is called.
DebateIdle ==
  /\ dpc = "idle"
  /\ exchange_num = 0
  /\ dialogue_lines = <<>>
  /\ prompts = <<>>
  /\ outcomes = <<>>
  /\ script = [chapters |-> <<>>, social_hooks |-> <<>>, valid |-> FALSE]
  /\ error = [kind |-> "None", speaker |-> "None", exchange |-> 0, cause |-> "None"]

\* The decorator arguments before any decorated operation is set up, and the
\* calls of it before any is made.
RetryIdle ==
  /\ rpc = [c \in Calls |-> "idle"]
  /\ attempt = [c \in Calls |-> 0]
  /\ last_exception = [c \in Calls |-> NoException]
  /\ recorded_delays = [c \in Calls |-> <<>>]
  /\ func_calls = [c \in Calls |-> <<>>]
  /\ result = [c \in Calls |-> NoValue]
  /\ raised = [c \in Calls |-> NoException]

\* The runs that may interleave on one engine.
Runs == {1, 2}

\* The locals of a run that holds nothing.
EmptyFrame ==
  [num_exchanges |-> 0, dpc |-> "idle", exchange_num |-> 0, dialogue_lines |-> <<>>,
   prompts |-> <<>>, outcomes |-> <<>>,
   script |-> [chapters |-> <<>>, social_hooks |-> <<>>, valid |-> FALSE],
   error |-> [kind |-> "None", speaker |-> "None", exchange |-> 0, cause |-> "None"]]

\* One run only: nothing is suspended.
RunsIdle ==
  /\ current = 1
  /\ frames = [r \in Runs |-> EmptyFrame]

\* generate_all_clips before it is called.
VideoIdle ==
  /\ vpc = "idle"
  /\ hook_idx = 0
  /\ video_urls = <<>>
  /\ clip_calls = <<>>
  /\ clip_results = <<>>
  /\ video_error = "None"

\* generate_episode before it is called.
AudioIdle ==
  /\ apc = "idle"
  /\ line_idx = 0
  /\ audio_segments = <<>>
  /\ synth_calls = <<>>
  /\ synth_results = <<>>
  /\ uploads = <<>>
  /\ audio_url = "None"
  /\ audio_error = [kind |-> "None", line |-> 0]

\* An empty database and no query made.
DbIdle ==
  /\ cases_table = <<>>
  /\ evidence_table = <<>>
  /\ created_cases = <<>>
  /\ db_result = [op |-> "None", arg |-> "None", value |-> <<>>, failed |-> FALSE]

\* No background job started.
JobIdle ==
  /\ jpc = "idle"
  /\ job = [type |-> "None", step |-> "None", status |-> "pending",
            found |-> 0, cases |-> 0, case_ids |-> <<>>, result_id |-> 0]
  /\ status_updates = <<>>
  /\ step_failures = <<>>

\* The services at rest.
ServicesIdle ==
  /\ RunsIdle
  /\ VideoIdle
  /\ AudioIdle
  /\ DbIdle
  /\ JobIdle

InitRetry ==
  /\ DebateIdle
  /\ num_exchanges = 0
  /\ max_attempts \in 1..MaxAttemptsBound
  /\ base_delay \in 0..MaxBaseDelay
  /\ exceptions \in ExceptionTuples
  /\ RetryIdle
  /\ ServicesIdle

NextRetry ==
  \/ \E c \in Calls : WrapperCalled(c)
  \/ \E c \in Calls, v \in Values : FuncReturns(c, v)
  \/ \E c \in Calls, k \in ErrorKinds : FuncRaises(c, k)
  \/ \E c \in Calls : SleepDone(c)

SpecRetry == InitRetry /\ [][NextRetry]_vars

\* ------------------------------------------------------- retry: the claims
\* An exception of kind k is of a retryable type: the configured tuple names
\* its class or, with (Exception,), a base class of it.
Retryable(k) == k \in exceptions \/ "Exception" \in exceptions

\* Every invocation of func made so far by call c failed with a retryable type.
AllRetryableFailures(c) ==
  \A i \in 1..Len(func_calls[c]) :
    ~func_calls[c][i].ok /\ Retryable(func_calls[c][i].exc.kind)

\* C1: a call whose operation failed every time with a retryable exception and
\* that has raised to its caller invoked the operation exactly max_attempts
\* times and slept exactly max_attempts - 1 times.
C1_ExhaustionCounts ==
  \A c \in Calls :
    (rpc[c] = "raised" /\ AllRetryableFailures(c))
      => /\ Len(func_calls[c]) = max_attempts
         /\ Len(recorded_delays[c]) = max_attempts - 1

C1_Witness ==
  \E c \in Calls :
    /\ rpc[c] = "raised" /\ AllRetryableFailures(c)
    /\ max_attempts = 3 /\ Len(func_calls[c]) = 3 /\ Len(recorded_delays[c]) = 2

\* C2: the i-th sleep of a call (after the failure of attempt i - 1) lasts
\* base_delay * 2^(i-1), and there is one sleep for every retryable failure of
\* an attempt n in [0, max_attempts - 2].
C2_BackoffSchedule ==
  \A c \in Calls :
    /\ \A i \in 1..Len(recorded_delays[c]) :
         recorded_delays[c][i] = base_delay * Pow2(i - 1)
    /\ Len(recorded_delays[c]) =
         Cardinality({i \in 1..Len(func_calls[c]) :
                        /\ ~func_calls[c][i].ok
                        /\ Retryable(func_calls[c][i].exc.kind)
                        /\ i - 1 <= max_attempts - 2})

C2_Witness ==
  \E c \in Calls :
    /\ base_delay = 2 /\ max_attempts = 3
    /\ recorded_delays[c] = <<2, 4>>
    /\ rpc[c] = "raised"

\* C3: a call whose operation fails with an exception outside the retryable
\* set has invoked it exactly once, has not slept, and has raised that very
\* exception.
C3_FailFast ==
  \A c \in Calls :
    (/\ Len(func_calls[c]) >= 1
     /\ ~func_calls[c][1].ok
     /\ ~Retryable(func_calls[c][1].exc.kind))
      => /\ rpc[c] = "raised"
         /\ Len(func_calls[c]) = 1
         /\ recorded_delays[c] = <<>>
         /\ raised[c] = func_calls[c][1].exc

C3_Witness ==
  \E c \in Calls :
    /\ max_attempts = 3 /\ exceptions = {"ValueError"}
    /\ rpc[c] = "raised" /\ raised[c].kind = "TypeError"
    /\ Len(func_calls[c]) = 1

\* C4: a successful invocation is the last one the call makes: it comes after
\* k < max_attempts retryable failures and k sleeps, the wrapper has returned
\* its value, and no invocation follows it.
C4_SuccessAfterFailures ==
  \A c \in Calls :
    \A j \in 1..Len(func_calls[c]) :
      func_calls[c][j].ok
        => /\ j = Len(func_calls[c])
           /\ j - 1 < max_attempts
           /\ \A i \in 1..(j - 1) :
                ~func_calls[c][i].ok /\ Retryable(func_calls[c][i].exc.kind)
           /\ Len(recorded_delays[c]) = j - 1
           /\ rpc[c] = "returned"
           /\ result[c] = func_calls[c][j].value
           /\ raised[c] = NoException

C4_Witness ==
  \E c \in Calls :
    /\ rpc[c] = "returned" /\ result[c] = "other"
    /\ Len(func_calls[c]) = 3 /\ Len(recorded_delays[c]) = 2

\* C5: when all max_attempts attempts failed with retryable exceptions, the
\* exception raised is the one of the last attempt, unaltered.
C5_RaisesLastException ==
  \A c \in Calls :
    (rpc[c] = "raised" /\ AllRetryableFailures(c))
      => /\ Len(func_calls[c]) >= 1
         /\ raised[c] = func_calls[c][Len(func_calls[c])].exc
         /\ raised[c].n = max_attempts

C5_Witness ==
  \E c \in Calls :
    /\ rpc[c] = "raised" /\ AllRetryableFailures(c)
    /\ max_attempts = 3
    /\ func_calls[c][1].exc.kind = "ValueError"
    /\ raised[c] = ExceptionObject("TypeError", c, 3)

\* C6: whatever the outcomes, a call never invokes the operation more than
\* max_attempts times.
C6_AttemptsBounded ==
  \A c \in Calls : Len(func_calls[c]) <= max_attempts

C6_Witness ==
  \E c \in Calls :
    /\ max_attempts = 3 /\ Len(func_calls[c]) = 3
    /\ ~func_calls[c][1].ok /\ func_calls[c][3].ok

\* C7: interleaved calls keep their own attempt counter and last-error record:
\* each makes at most max_attempts attempts, sleeps base_delay, 2*base_delay, ...
\* counted from its own first failure, never records another call's error, and
\* on exhaustion raises the error of its own last attempt.
C7_CallsIndependent ==
  \A c \in Calls :
    /\ Len(func_calls[c]) <= max_attempts
    /\ rpc[c] = "invoke" => attempt[c] = Len(recorded_delays[c])
    /\ rpc[c] = "sleep" => attempt[c] + 1 = Len(recorded_delays[c])
    /\ \A i \in 1..Len(recorded_delays[c]) :
         recorded_delays[c][i] = base_delay * Pow2(i - 1)
    /\ last_exception[c].call \in {0, c}
    /\ rpc[c] = "raised"
         => /\ raised[c].call = c
            /\ raised[c] = func_calls[c][Len(func_calls[c])].exc

C7_Witness ==
  /\ rpc[1] = "sleep" /\ rpc[2] = "sleep"
  /\ Len(recorded_delays[1]) = 2 /\ Len(recorded_delays[2]) = 1
  /\ last_exception[1].call = 1 /\ last_exception[2].call = 2

\* ----------------------------------------------------------- debate: data
\* A text is kept as what the code reads of it: the length of text.strip()
\* (core), the number of whitespace characters around it (pad), and whether
\* its lower-cased form contains one of the hook indicators (hook).
Text(core, pad, hook) == [core |-> core, pad |-> pad, hook |-> hook]

EmptyText == Text(0, 0, FALSE)
BlankText == Text(0, 1, FALSE)
PlainText == Text(12, 0, FALSE)
HookText == Text(30, 1, TRUE)

\* Speaker = Literal["dr_aris_thorne", "maya_vance"]
Speakers == {"dr_aris_thorne", "maya_vance"}

\* EmotionTag (two of its nine values)
EmotionTags == {"neutral", "excited"}

DialogueLine(speaker, text, emotion_tag) ==
  [speaker |-> speaker, text |-> text, emotion_tag |-> emotion_tag]

\* DialogueLine's validation: Field(min_length=1) and text_not_whitespace.
TextValid(t) == t.core + t.pad >= 1 /\ t.core > 0

\* What an agent's run() may come back with: None, a result without output, or
\* a result whose output carries a speaker, a text and an emotion tag.
NoneResult == [some |-> FALSE, has_output |-> FALSE,
               output |-> DialogueLine("maya_vance", EmptyText, "neutral")]
NoOutput == [some |-> TRUE, has_output |-> FALSE,
             output |-> DialogueLine("maya_vance", EmptyText, "neutral")]
WithOutput(line) == [some |-> TRUE, has_output |-> TRUE, output |-> line]

AgentOutputs ==
  { DialogueLine("maya_vance", PlainText, "neutral"),
    DialogueLine("dr_aris_thorne", HookText, "excited"),
    DialogueLine("dr_aris_thorne", PlainText, "excited"),
    DialogueLine("maya_vance", EmptyText, "neutral"),
    DialogueLine("dr_aris_thorne", BlankText, "neutral") }

AgentResults == {NoneResult, NoOutput} \cup {WithOutput(l) : l \in AgentOutputs}

\* Exceptions an agent's run() may raise (subclasses of Exception).
AgentErrorKinds == {"ModelHTTPError", "UnexpectedModelBehavior"}

NoScript == [chapters |-> <<>>, social_hooks |-> <<>>, valid |-> FALSE]
NoError == [kind |-> "None", speaker |-> "None", exchange |-> 0, cause |-> "None"]

\* raise AgentResponseError(f"{Maya|Thorne} agent failed to generate response at exchange {n}")
AgentResponseError(speaker, n) ==
  [kind |-> "AgentResponseError", speaker |-> speaker, exchange |-> n, cause |-> "None"]

\* raise DebateEngineError(f"Debate generation failed: {e}")
DebateEngineError(cause) ==
  [kind |-> "DebateEngineError", speaker |-> "None", exchange |-> 0, cause |-> cause]

\* An exception of kind k raised by an agent or by pydantic
RawException(k) ==
  [kind |-> k, speaker |-> "None", exchange |-> 0, cause |-> "None"]

\* pydantic's ValidationError
ValidationError == RawException("ValidationError")

Min(a, b) == IF a < b THEN a ELSE b

\* ------------------------------------------------- debate: pure functions
\* context[-6:]
RecentLinesAll(context) == context
RecentLines(context) ==
  SubSeq(context, Len(context) - Min(Len(context), 6) + 1, Len(context))

\* The RECENT CONVERSATION part of the prompt: "<speaker_name>: <text>" per line.
ConversationContext(context) ==
  [i \in 1..Len(RecentLines(context)) |->
     [speaker_name |-> IF RecentLines(context)[i].speaker = "maya_vance"
                         THEN "Maya" ELSE "Dr. Thorne",
      text |-> RecentLines(context)[i].text]]

\* The instruction chosen by _build_prompt.
InstructionLooseOpening(context, speaker) ==
  IF speaker = "maya"
    THEN IF Len(context) <= 2 THEN "opening"
         ELSE IF Len(context) >= 28 THEN "closing"
         ELSE "continue"
    ELSE IF Len(context) = 1 THEN "response_to_opening"
         ELSE IF Len(context) >= 29 THEN "closing"
         ELSE "continue"
InstructionClosingLate(context, speaker) ==
  IF speaker = "maya"
    THEN IF Len(context) = 0 THEN "opening"
         ELSE IF Len(context) > 28 THEN "closing"
         ELSE "continue"
    ELSE IF Len(context) = 1 THEN "response_to_opening"
         ELSE IF Len(context) >= 29 THEN "closing"
         ELSE "continue"
Instruction(context, speaker) ==
  IF speaker = "maya"
    THEN IF Len(context) = 0 THEN "opening"
         ELSE IF Len(context) >= 28 THEN "closing"
         ELSE "continue"
    ELSE IF Len(context) = 1 THEN "response_to_opening"
         ELSE IF Len(context) >= 29 THEN "closing"
         ELSE "continue"

\* _build_prompt(case, context, speaker); the case part is the same in every
\* prompt of a run and is left out.
BuildPrompt(context, speaker) ==
  [speaker |-> speaker,
   instruction |-> Instruction(context, speaker),
   conversation |-> ConversationContext(context)]

\* text.strip()
Strip(t) == Text(t.core, 0, t.hook)

\* The test of generate_social_hooks on one line.
IsHookInclusive(line) ==
  /\ line.text.hook
  /\ Strip(line.text).core >= 20
  /\ Strip(line.text).core <= 280
IsHook(line) ==
  /\ line.text.hook
  /\ Strip(line.text).core > 20
  /\ Strip(line.text).core < 280

\* generate_social_hooks(script)
GenerateSocialHooksUncapped(chapters) ==
  LET found == SelectSeq(chapters, IsHook)
  IN [i \in 1..Len(found) |-> Strip(found[i].text)]
GenerateSocialHooks(chapters) ==
  LET found == SelectSeq(chapters, IsHook)
      hooks == [i \in 1..Len(found) |-> Strip(found[i].text)]
  IN SubSeq(hooks, 1, Min(Len(hooks), 5))

\* PodcastScript(...): chapters has Field(min_length=1); script_id, case_id and
\* episode_title are never empty here.
ScriptValidAny(chapters) == TRUE
ScriptValid(chapters) == Len(chapters) >= 1

\* compile_script(case, dialogue_lines), for a list PodcastScript accepts
CompileScript(lines) ==
  [chapters |-> lines, social_hooks |-> GenerateSocialHooks(lines), valid |-> TRUE]

\* --------------------------------------------------------- debate: the code
\* The line built from Maya's output (lines 66-70)
MayaLineTrustsAgent(out) == DialogueLine(out.speaker, out.text, out.emotion_tag)
MayaLine(out) == DialogueLine("maya_vance", out.text, out.emotion_tag)

\* The line built from Thorne's output (lines 83-87)
ThorneLine(out) == DialogueLine("dr_aris_thorne", out.text, out.emotion_tag)

\* for exchange_num in range(num_exchanges): is there an iteration after n?
ExchangeRangeHasNextOffByOne(n) == n + 1 <= num_exchanges
ExchangeRangeHasNext(n) == n + 1 < num_exchanges

\* return self.compile_script(case, dialogue_lines), after the try block
ReturnCompiled(lines) ==
  IF ScriptValid(lines)
    THEN /\ dpc' = "returned"
         /\ script' = CompileScript(lines)
         /\ UNCHANGED error
    ELSE /\ dpc' = "raised"
         /\ error' = ValidationError
         /\ UNCHANGED script

\* dialogue_lines.append(line)
InsertFirst(lines, line) == <<line>> \o lines
AppendLine(lines, line) == Append(lines, line)

\* The except clauses of generate_debate (lines 92-95): AgentResponseError is
\* re-raised, any other Exception becomes a DebateEngineError, and what is no
\* Exception (asyncio.CancelledError) passes through.
ExceptHandlerPassThrough(e) == e
ExceptHandlerCatchesAll(e) ==
  IF e.kind = "AgentResponseError" THEN e ELSE DebateEngineError(e.kind)
ExceptHandler(e) ==
  IF e.kind = "AgentResponseError" THEN e
  ELSE IF IsSubclass(e.kind, "Exception") THEN DebateEngineError(e.kind)
  ELSE e

\* A bug: the handler logs the exception and the run goes on to compile_script.
RaiseFromTrySwallowed(e) ==
  /\ ReturnCompiled(dialogue_lines)
  /\ UNCHANGED <<exchange_num, dialogue_lines, prompts>>

\* A bug: the failing turn is asked for again.
RaiseFromTryRetries(e) ==
  /\ dpc' = dpc
  /\ prompts' = Append(prompts, prompts[Len(prompts)])
  /\ UNCHANGED <<exchange_num, dialogue_lines, script, error>>

\* An exception leaves the try block: except AgentResponseError: raise /
\* except Exception as e: raise DebateEngineError(...)
RaiseFromTry(e) ==
  /\ dpc' = "raised"
  /\ error' = ExceptHandler(e)
  /\ UNCHANGED <<exchange_num, dialogue_lines, prompts, script>>

\* generate_debate is called: dialogue_lines = [], then the first prompt and
\* maya.run, or, with an empty range, compile_script at once.
GenerateDebateCalled ==
  /\ dpc = "idle"
  /\ dialogue_lines' = <<>>
  /\ IF num_exchanges >= 1
       THEN /\ exchange_num' = 0
            /\ prompts' = Append(prompts, BuildPrompt(<<>>, "maya"))
            /\ dpc' = "maya_run"
            /\ UNCHANGED <<script, error>>
       ELSE /\ ReturnCompiled(<<>>)
            /\ UNCHANGED <<exchange_num, prompts>>
  /\ UNCHANGED <<num_exchanges, outcomes>>
  /\ UNCHANGED <<retry_vars, service_vars>>

\* await self.maya.run(maya_prompt, deps=case) returns r (lines 58-75)
MayaRunReturns(r) ==
  /\ dpc = "maya_run"
  /\ outcomes' = Append(outcomes, [speaker |-> "maya", exchange |-> exchange_num,
                                   raised |-> "None", result |-> r])
  /\ IF ~r.some \/ ~r.has_output
       THEN RaiseFromTry(AgentResponseError("Maya", exchange_num + 1))
       ELSE IF ~TextValid(r.output.text)
         THEN RaiseFromTry(ValidationError)
         ELSE /\ dialogue_lines' = AppendLine(dialogue_lines, MayaLine(r.output))
              /\ prompts' = Append(prompts, BuildPrompt(dialogue_lines', "thorne"))
              /\ dpc' = "thorne_run"
              /\ UNCHANGED <<exchange_num, script, error>>
  /\ UNCHANGED num_exchanges
  /\ UNCHANGED <<retry_vars, service_vars>>

\* await self.maya.run(...) raises an exception of kind k
MayaRunRaises(k) ==
  /\ dpc = "maya_run"
  /\ outcomes' = Append(outcomes, [speaker |-> "maya", exchange |-> exchange_num,
                                   raised |-> k, result |-> NoneResult])
  /\ RaiseFromTry(RawException(k))
  /\ UNCHANGED num_exchanges
  /\ UNCHANGED <<retry_vars, service_vars>>

\* await self.thorne.run(thorne_prompt, deps=case) returns r (lines 75-98)
ThorneRunReturns(r) ==
  /\ dpc = "thorne_run"
  /\ outcomes' = Append(outcomes, [speaker |-> "thorne", exchange |-> exchange_num,
                                   raised |-> "None", result |-> r])
  /\ IF ~r.some \/ ~r.has_output
       THEN RaiseFromTry(AgentResponseError("Thorne", exchange_num + 1))
       ELSE IF ~TextValid(r.output.text)
         THEN RaiseFromTry(ValidationError)
         ELSE /\ dialogue_lines' = AppendLine(dialogue_lines, ThorneLine(r.output))
              /\ IF ExchangeRangeHasNext(exchange_num)
                   THEN /\ exchange_num' = exchange_num + 1
                        /\ prompts' = Append(prompts, BuildPrompt(dialogue_lines', "maya"))
                        /\ dpc' = "maya_run"
                        /\ UNCHANGED <<script, error>>
                   ELSE /\ ReturnCompiled(dialogue_lines')
                        /\ UNCHANGED <<exchange_num, prompts>>
  /\ UNCHANGED num_exchanges
  /\ UNCHANGED <<retry_vars, service_vars>>

\* await self.thorne.run(...) raises an exception of kind k
ThorneRunRaises(k) ==
  /\ dpc = "thorne_run"
  /\ outcomes' = Append(outcomes, [speaker |-> "thorne", exchange |-> exchange_num,
                                   raised |-> k, result |-> NoneResult])
  /\ RaiseFromTry(RawException(k))
  /\ UNCHANGED num_exchanges
  /\ UNCHANGED <<retry_vars, service_vars>>

InitDebate ==
  /\ RetryIdle
  /\ ServicesIdle
  \* generate_debate calls maya.run and thorne.run directly, not through
  \* with_retry: the decorator's state stays at rest during a run.
  /\ max_attempts = 1 /\ base_delay = 0 /\ exceptions = {"Exception"}
  /\ DebateIdle
  /\ num_exchanges \in 0..MaxExchanges

NextDebate ==
  \/ GenerateDebateCalled
  \/ \E r \in AgentResults : MayaRunReturns(r)
  \/ \E k \in AgentErrorKinds : MayaRunRaises(k)
  \/ \E r \in AgentResults : ThorneRunReturns(r)
  \/ \E k \in AgentErrorKinds : ThorneRunRaises(k)

SpecDebate == InitDebate /\ [][NextDebate]_vars

\* ------------------------------------------------------ debate: the claims
\* The i-th speaker call came back with a turn DialogueLine accepts.
CallSucceeded(i) ==
  /\ outcomes[i].raised = "None"
  /\ outcomes[i].result.some
  /\ outcomes[i].result.has_output
  /\ outcomes[i].result.output.text.core > 0

\* The i-th speaker call raised, or came back without a result or an output.
CallFailed(i) ==
  \/ outcomes[i].raised # "None"
  \/ ~outcomes[i].result.some
  \/ ~outcomes[i].result.has_output

DebateEnded == dpc \in {"returned", "raised"}

\* C8: with num_exchanges = E >= 1 and every speaker call succeeding, the run
\* makes exactly 2E speaker calls, never raises, and returns a script of exactly
\* 2E turns that starts with maya_vance and changes speaker at every turn.
C8_TranscriptLength ==
  (num_exchanges >= 1 /\ \A i \in 1..Len(outcomes) : CallSucceeded(i))
    => /\ dpc # "raised"
       /\ Len(outcomes) <= 2 * num_exchanges
       /\ (Len(outcomes) = 2 * num_exchanges) <=> (dpc = "returned")
       /\ dpc = "returned"
            => /\ Len(script.chapters) = 2 * num_exchanges
               /\ script.chapters[1].speaker = "maya_vance"
               /\ \A i \in 1..(Len(script.chapters) - 1) :
                    script.chapters[i].speaker # script.chapters[i + 1].speaker

C8_Witness ==
  /\ num_exchanges = 3 /\ dpc = "returned"
  /\ Len(script.chapters) = 6
  /\ \A i \in 1..Len(outcomes) : CallSucceeded(i)

\* C9: in a returned script, and in the list being built, the turn at an even
\* 0-based index is maya_vance's and the turn at an odd index dr_aris_thorne's,
\* whatever speaker the agent's output named.
C9_RoleEnforcement ==
  /\ \A i \in 1..Len(dialogue_lines) :
       dialogue_lines[i].speaker =
         IF (i - 1) % 2 = 0 THEN "maya_vance" ELSE "dr_aris_thorne"
  /\ dpc = "returned"
       => \A i \in 1..Len(script.chapters) :
            script.chapters[i].speaker =
              IF (i - 1) % 2 = 0 THEN "maya_vance" ELSE "dr_aris_thorne"

C9_Witness ==
  /\ dpc = "returned" /\ num_exchanges = 2
  /\ outcomes[1].result.output.speaker = "dr_aris_thorne"
  /\ script.chapters[1].speaker = "maya_vance"
  /\ outcomes[2].result.output.speaker = "maya_vance"
  /\ script.chapters[2].speaker = "dr_aris_thorne"

\* C10: a failed speaker call is the last one of the run, and the run ends
\* raising a debate error without a script; every run that has ended has either
\* returned a script of 2 * num_exchanges turns and raised nothing, or raised an
\* error and returned nothing, and before the end nothing is returned.
C10_AllOrNothing ==
  /\ \A i \in 1..Len(outcomes) :
       CallFailed(i)
         => /\ i = Len(outcomes)
            /\ dpc = "raised"
            /\ script = NoScript
            /\ error.kind \in {"DebateEngineError", "AgentResponseError"}
  /\ DebateEnded
       => \/ /\ dpc = "returned" /\ error = NoError
             /\ script.valid /\ Len(script.chapters) = 2 * num_exchanges
          \/ /\ dpc = "raised" /\ error # NoError
             /\ script = NoScript
  /\ ~DebateEnded => (script = NoScript /\ error = NoError)

C10_Witness ==
  /\ dpc = "raised" /\ script = NoScript
  /\ num_exchanges = 3
  /\ Len(dialogue_lines) = 3
  /\ CallFailed(4)
  /\ outcomes[4].exchange = 1

\* The number of speaker calls made for the turn of the i-th call.
AttemptsOfTurn(i) ==
  Cardinality({j \in 1..Len(outcomes) :
                 /\ outcomes[j].speaker = outcomes[i].speaker
                 /\ outcomes[j].exchange = outcomes[i].exchange})

\* C11: a speaker call that raised a transient upstream error is made again,
\* up to three attempts for the turn: a run that failed on such an error has
\* made three calls for that turn.
C11_SpeakerCallsRetried ==
  \A i \in 1..Len(outcomes) :
    (outcomes[i].raised \in AgentErrorKinds /\ dpc = "raised")
      => AttemptsOfTurn(i) = 3

\* C12: the error raised after the speaker call of exchange index j failed (by
\* raising, or by returning nothing) names the failing speaker and the
\* exchange (as the number j + 1 the message counts it by).
C12_ErrorNamesSpeakerAndExchange ==
  \A i \in 1..Len(outcomes) :
    CallFailed(i)
      => /\ error.speaker = (IF outcomes[i].speaker = "maya" THEN "Maya" ELSE "Thorne")
         /\ error.exchange = outcomes[i].exchange + 1

\* C13: with num_exchanges >= 1, whatever a speaker call or the construction
\* of a turn raised, the error that reaches the caller is a DebateEngineError
\* or its subclass AgentResponseError.
C13_OnlyDebateErrors ==
  (num_exchanges >= 1 /\ dpc = "raised")
    => error.kind \in {"DebateEngineError", "AgentResponseError"}

C13_Witness ==
  /\ num_exchanges = 2 /\ dpc = "raised"
  /\ Len(dialogue_lines) = 3
  /\ outcomes[4].result.output.text = BlankText
  /\ error = DebateEngineError("ValidationError")

\* C14: the speaker calls are issued one at a time in the order A0, B0, A1,
\* B1, ...: at most one call is in flight, the i-th call is Maya's for odd i
\* and Thorne's for even i, in exchange (i - 1) \div 2; a prompt is built only
\* when the turn of the previous call is in the transcript (its conversation
\* ends with that turn, spoken by the other host); and the turns of the list
\* and of the returned script are the outputs of the calls in call order.
C14_StrictlySequential ==
  /\ Len(outcomes) <= Len(prompts) /\ Len(prompts) <= Len(outcomes) + 1
  /\ (Len(prompts) = Len(outcomes) + 1) <=> (dpc \in {"maya_run", "thorne_run"})
  /\ \A i \in 1..Len(prompts) :
       /\ prompts[i].speaker = (IF i % 2 = 1 THEN "maya" ELSE "thorne")
       /\ i >= 2 =>
            LET w == prompts[i].conversation
            IN /\ Len(w) >= 1
               /\ w[Len(w)].text = outcomes[i - 1].result.output.text
               /\ w[Len(w)].speaker_name =
                    (IF i % 2 = 1 THEN "Dr. Thorne" ELSE "Maya")
  /\ \A i \in 1..Len(outcomes) :
       /\ outcomes[i].speaker = prompts[i].speaker
       /\ outcomes[i].exchange = (i - 1) \div 2
  /\ \A i \in 1..Len(dialogue_lines) :
       /\ dialogue_lines[i].text = outcomes[i].result.output.text
       /\ dialogue_lines[i].emotion_tag = outcomes[i].result.output.emotion_tag
  /\ dpc = "returned"
       => /\ Len(script.chapters) = Len(outcomes)
          /\ \A i \in 1..Len(script.chapters) :
               script.chapters[i].text = outcomes[i].result.output.text

C14_Witness ==
  /\ dpc = "returned" /\ num_exchanges = 2
  /\ script.chapters[1].text = HookText /\ script.chapters[2].text = PlainText
  /\ script.chapters[3].text = PlainText /\ script.chapters[4].text = HookText
  /\ prompts[4].conversation[3].text = PlainText

\* C15: the conversation part of the prompt of the speaker call made with n
\* turns generated holds exactly the last min(n, 6) turns, in transcript order.
C15_SlidingWindow ==
  \A i \in 1..Len(prompts) :
    LET n == i - 1
        w == prompts[i].conversation
        k == IF n < 6 THEN n ELSE 6
    IN /\ Len(w) = k
       /\ \A j \in 1..k :
            /\ w[j].text = dialogue_lines[n - k + j].text
            /\ w[j].speaker_name =
                 (IF dialogue_lines[n - k + j].speaker = "maya_vance"
                    THEN "Maya" ELSE "Dr. Thorne")

C15_Witness ==
  /\ Len(prompts) = 8
  /\ Len(prompts[8].conversation) = 6
  /\ dialogue_lines[1].text # dialogue_lines[2].text
  /\ prompts[8].conversation[1].text = dialogue_lines[2].text

\* C16: the prompt of turn 0 carries the opening instruction, the prompt of
\* turn 1 the response-to-opening instruction, and no other prompt of the run
\* carries either.
C16_OpeningFraming ==
  \A i \in 1..Len(prompts) :
    /\ (prompts[i].instruction = "opening") <=> (i = 1)
    /\ (prompts[i].instruction = "response_to_opening") <=> (i = 2)

C16_Witness ==
  /\ num_exchanges = 4 /\ Len(prompts) = 8
  /\ prompts[1].instruction = "opening"
  /\ prompts[2].instruction = "response_to_opening"
  /\ prompts[3].instruction = "continue"

\* C17: in a run with num_exchanges = 3 whose speaker calls all succeed, turns
\* 4 and 5 are prompted with the closing instruction and turns 2 and 3 with
\* the continue instruction.
C17_ClosingForThreeExchanges ==
  (num_exchanges = 3 /\ dpc = "returned")
    => /\ prompts[3].instruction = "continue"
       /\ prompts[4].instruction = "continue"
       /\ prompts[5].instruction = "closing"
       /\ prompts[6].instruction = "closing"

\* --------------------------------------------- compile_script called alone
\* Texts around the length limits of generate_social_hooks: 20 and 280
\* characters (left out), 21 and 279 (kept; the latter with whitespace around
\* it), and a text without a hook indicator.
Hook20 == Text(20, 0, TRUE)
Hook21 == Text(21, 0, TRUE)
Hook279Padded == Text(279, 2, TRUE)
Hook280 == Text(280, 0, TRUE)
NoHook30 == Text(30, 0, FALSE)

HookTexts == {Hook20, Hook21, Hook279Padded, Hook280, NoHook30}

\* The DialogueLines a caller hands to compile_script.
ScriptLines == {DialogueLine("maya_vance", t, "neutral") : t \in HookTexts}

\* compile_script(case, dialogue_lines) is called with the caller's list.
CompileScriptCalled ==
  /\ dpc = "idle"
  /\ ReturnCompiled(dialogue_lines)
  /\ UNCHANGED <<num_exchanges, exchange_num, dialogue_lines, prompts, outcomes>>
  /\ UNCHANGED <<retry_vars, service_vars>>

InitHooks ==
  /\ RetryIdle
  /\ ServicesIdle
  /\ max_attempts = 1 /\ base_delay = 0 /\ exceptions = {"Exception"}
  /\ num_exchanges = 0
  /\ dpc = "idle"
  /\ exchange_num = 0
  /\ prompts = <<>>
  /\ outcomes = <<>>
  /\ script = NoScript
  /\ error = NoError
  /\ dialogue_lines \in UNION {[1..n -> ScriptLines] : n \in 0..MaxLines}

NextHooks == CompileScriptCalled

SpecHooks == InitHooks /\ [][NextHooks]_vars

\* ------------------------------------------------------- hooks: the claims
RECURSIVE IsSubsequence(_, _)
IsSubsequence(a, b) ==
  IF a = <<>> THEN TRUE
  ELSE IF b = <<>> THEN FALSE
  ELSE IF Head(a) = Head(b) THEN IsSubsequence(Tail(a), Tail(b))
  ELSE IsSubsequence(a, Tail(b))

\* The turn has an indicator and a stripped length in [20, 280].
StrippedInRange(line) ==
  line.text.hook /\ line.text.core >= 20 /\ line.text.core <= 280

\* The turn has an indicator and a length in [20, 280].
RawInRange(line) ==
  /\ line.text.hook
  /\ line.text.core + line.text.pad >= 20
  /\ line.text.core + line.text.pad <= 280

\* The stripped texts of a list of turns.
StrippedTexts(lines) ==
  [i \in 1..Len(lines) |-> [core |-> lines[i].text.core, pad |-> 0,
                            hook |-> lines[i].text.hook]]

\* The texts of a list of turns.
RawTexts(lines) == [i \in 1..Len(lines) |-> lines[i].text]

\* C18 (as amended): social_hooks has at most 5 entries, and they are, in
\* transcript order, whitespace-stripped texts of turns that contain a hook
\* indicator and whose stripped length lies in [20, 280].
C18_HooksBoundedAndOrdered ==
  dpc = "returned"
    => /\ Len(script.social_hooks) <= 5
       /\ IsSubsequence(script.social_hooks,
                        StrippedTexts(SelectSeq(script.chapters, StrippedInRange)))

C18_Witness ==
  /\ dpc = "returned"
  /\ Len(script.chapters) = 6 /\ Len(script.social_hooks) = 5
  /\ \A i \in 1..6 : script.chapters[i].text \in {Hook21, Hook279Padded}
  /\ script.chapters[1].text = Hook279Padded

\* C18 (as stated): social_hooks has at most 5 entries, and they are, in
\* transcript order, texts of turns that contain a hook indicator and whose
\* length lies in [20, 280].
C18_EntriesAreTurnTexts ==
  dpc = "returned"
    => /\ Len(script.social_hooks) <= 5
       /\ IsSubsequence(script.social_hooks,
                        RawTexts(SelectSeq(script.chapters, RawInRange)))

\* The indices of the turns with an indicator and a stripped length strictly
\* between 20 and 280.
StrictlyQualifying(chapters) ==
  {i \in 1..Len(chapters) :
     chapters[i].text.hook /\ chapters[i].text.core > 20 /\ chapters[i].text.core < 280}

\* The indices of the turns with an indicator and a length from 20 to 280.
InclusivelyQualifying(chapters) ==
  {i \in 1..Len(chapters) :
     /\ chapters[i].text.hook
     /\ chapters[i].text.core + chapters[i].text.pad >= 20
     /\ chapters[i].text.core + chapters[i].text.pad <= 280}

\* The k-th smallest element of a set of indices.
KthOf(Q, k) == CHOOSE i \in Q : Cardinality({j \in Q : j <= i}) = k

\* C19 (as amended): the social_hooks of a compiled script are exactly the
\* whitespace-stripped texts of the first five turns, in transcript order, that
\* contain a hook indicator and whose stripped length is strictly between 20
\* and 280 (21 to 279 characters).
C19_FirstFiveStrictlyInRange ==
  dpc = "returned"
    => LET Q == StrictlyQualifying(script.chapters)
           h == script.social_hooks
       IN /\ Len(h) = (IF Cardinality(Q) < 5 THEN Cardinality(Q) ELSE 5)
          /\ \A k \in 1..Len(h) :
               h[k] = StrippedTexts(script.chapters)[KthOf(Q, k)]

C19_Witness ==
  /\ dpc = "returned"
  /\ Len(script.chapters) = 6
  /\ script.chapters[1].text = Hook20
  /\ script.chapters[2].text = Hook280
  /\ script.chapters[3].text = Hook279Padded
  /\ script.chapters[4].text = NoHook30
  /\ script.chapters[5].text = Hook21
  /\ script.social_hooks = <<Text(279, 0, TRUE), Hook21, Hook21>>

\* C19 (as stated): the social_hooks of a compiled script are exactly the first
\* five turns, in transcript order, that contain a hook indicator and whose
\* length is within 20 to 280 characters, bounds included.
C19_FirstFiveInclusive ==
  dpc = "returned"
    => LET Q == InclusivelyQualifying(script.chapters)
           h == script.social_hooks
       IN /\ Len(h) = (IF Cardinality(Q) < 5 THEN Cardinality(Q) ELSE 5)
          /\ \A k \in 1..Len(h) : h[k] = script.chapters[KthOf(Q, k)].text

\* ------------------------------------------------------------ cancellation
\* The caller cancels the task awaiting decorated call c: asyncio throws
\* CancelledError into the coroutine at its pending await. At
\* "await func(...)" (retry.py:36) that is inside the try and meets
\* "except exceptions"; at "await asyncio.sleep(delay)" (retry.py:45) it is
\* inside the except block, where no handler applies.
CancelCall(c) ==
  \/ /\ rpc[c] = "invoke"
     /\ FuncRaises(c, "CancelledError")
  \/ /\ rpc[c] = "sleep"
     /\ rpc' = [rpc EXCEPT ![c] = "raised"]
     /\ raised' = [raised EXCEPT ![c] =
                     ExceptionObject("CancelledError", c, Len(func_calls[c]))]
     /\ UNCHANGED <<max_attempts, base_delay, exceptions, attempt, last_exception,
                    recorded_delays, func_calls, result>>
     /\ UNCHANGED <<debate_vars, service_vars>>

\* The caller cancels the task awaiting generate_debate while maya.run
\* (debate.py:58) or thorne.run (debate.py:75) is pending: CancelledError is
\* raised at that await, inside the try.
CancelRun ==
  \/ MayaRunRaises("CancelledError")
  \/ ThorneRunRaises("CancelledError")

\* A run of generate_debate next to calls of an operation decorated as in
\* audio.py:69 and video.py:59.
InitCancel ==
  /\ RetryIdle
  /\ ServicesIdle
  /\ max_attempts = 3 /\ base_delay = 1 /\ exceptions = {"Exception"}
  /\ DebateIdle
  /\ num_exchanges = 1

NextCancel ==
  \/ NextRetry
  \/ NextDebate
  \/ \E c \in Calls : CancelCall(c)
  \/ CancelRun

SpecCancel == InitCancel /\ [][NextCancel]_vars

\* ------------------------------------------------ cancellation: the claim
\* The run was cancelled while a speaker call was in flight.
RunCancelled ==
  \E i \in 1..Len(outcomes) : outcomes[i].raised = "CancelledError"

\* Call c was cancelled while its invocation of func was in flight.
CallCancelledInFlight(c) ==
  \E n \in 1..Len(func_calls[c]) : func_calls[c][n].exc.kind = "CancelledError"

\* Call c was left by a CancelledError.
CallCancelled(c) == raised[c].kind = "CancelledError"

\* C20: a cancellation that arrives while a speaker call is in flight or a
\* backoff sleep is pending is neither caught nor converted: the cancelled
\* call is the last one issued, CancelledError itself leaves with_retry and
\* generate_debate, no sleep follows it, and no value or transcript is returned.
C20_CancellationPropagates ==
  /\ RunCancelled
       => /\ outcomes[Len(outcomes)].raised = "CancelledError"
          /\ \A i \in 1..(Len(outcomes) - 1) : outcomes[i].raised = "None"
          /\ Len(prompts) = Len(outcomes)
          /\ dpc = "raised"
          /\ error = RawException("CancelledError")
          /\ script = NoScript
  /\ \A c \in Calls :
       /\ CallCancelledInFlight(c)
            => /\ func_calls[c][Len(func_calls[c])].exc.kind = "CancelledError"
               /\ \A n \in 1..(Len(func_calls[c]) - 1) :
                    func_calls[c][n].exc.kind # "CancelledError"
               /\ Len(recorded_delays[c]) = Len(func_calls[c]) - 1
               /\ CallCancelled(c)
       /\ CallCancelled(c)
            => /\ rpc[c] = "raised"
               /\ result[c] = NoValue
               /\ Len(func_calls[c]) < max_attempts
                    \/ CallCancelledInFlight(c)
               /\ ~CallCancelledInFlight(c)
                    => Len(recorded_delays[c]) = Len(func_calls[c])

C20_Witness ==
  /\ RunCancelled
  /\ outcomes[Len(outcomes)].speaker = "thorne"
  /\ Len(dialogue_lines) = 1
  /\ CallCancelled(1) /\ ~CallCancelledInFlight(1) /\ Len(recorded_delays[1]) = 2
  /\ CallCancelledInFlight(2) /\ Len(func_calls[2]) = 2

\* ------------------------------------------ interleaved generate_debate runs
\* The locals of the executing run.
CurrentFrame ==
  [num_exchanges |-> num_exchanges, dpc |-> dpc, exchange_num |-> exchange_num,
   dialogue_lines |-> dialogue_lines, prompts |-> prompts, outcomes |-> outcomes,
   script |-> script, error |-> error]

\* dialogue_lines: List[DialogueLine] = [] (debate.py:52) is a local of the
\* coroutine: a run that resumes finds its own list, not the list the run
\* that executed last worked on.
EngineList(own, last) == last
OwnList(own, last) == own

\* The event loop suspends the executing run at its await and resumes run r.
Resume(r) ==
  /\ r # current
  /\ frames' = [frames EXCEPT ![current] = CurrentFrame, ![r] = EmptyFrame]
  /\ current' = r
  /\ num_exchanges' = frames[r].num_exchanges
  /\ dpc' = frames[r].dpc
  /\ exchange_num' = frames[r].exchange_num
  /\ dialogue_lines' = OwnList(frames[r].dialogue_lines, dialogue_lines)
  /\ prompts' = frames[r].prompts
  /\ outcomes' = frames[r].outcomes
  /\ script' = frames[r].script
  /\ error' = frames[r].error
  /\ UNCHANGED <<retry_vars, video_vars, audio_vars, db_vars, job_vars>>

\* The text the agents produce for the case of run r: the two runs are about
\* different cases and their texts differ.
RunText(r) == IF r = 1 THEN PlainText ELSE HookText

\* What maya.run / thorne.run may come back with in run r.
RunResults(r) ==
  {NoneResult, WithOutput(DialogueLine("maya_vance", RunText(r), "neutral"))}

InitRuns ==
  /\ RetryIdle
  /\ max_attempts = 1 /\ base_delay = 0 /\ exceptions = {"Exception"}
  /\ DebateIdle
  /\ num_exchanges \in 1..MaxRunExchanges
  /\ VideoIdle
  /\ AudioIdle
  /\ DbIdle
  /\ JobIdle
  /\ current = 1
  /\ \E e \in 1..MaxRunExchanges :
       frames = [r \in Runs |-> IF r = 1 THEN EmptyFrame
                                ELSE [EmptyFrame EXCEPT !.num_exchanges = e]]

NextRuns ==
  \/ GenerateDebateCalled
  \/ \E r \in RunResults(current) : MayaRunReturns(r)
  \/ \E k \in AgentErrorKinds : MayaRunRaises(k)
  \/ \E r \in RunResults(current) : ThorneRunReturns(r)
  \/ \E k \in AgentErrorKinds : ThorneRunRaises(k)
  \/ \E r \in Runs : Resume(r)

SpecRuns == InitRuns /\ [][NextRuns]_vars

\* ----------------------------------------------- interleaved runs: the claim
\* The locals of run r, executing or suspended.
FrameOf(r) == IF r = current THEN CurrentFrame ELSE frames[r]

\* The texts a sequence of turns or of prompt lines carries.
TextsOf(lines) == {lines[i].text : i \in 1..Len(lines)}

\* C21: two runs that interleave on one engine each own their turn list: every
\* turn a run holds or returns was produced by its own speaker calls, a
\* returned transcript has exactly 2E turns, and no prompt of a run contains a
\* turn of the other run.
C21_RunsOwnTheirTurns ==
  \A r \in Runs :
    LET f == FrameOf(r)
    IN /\ TextsOf(f.dialogue_lines) \subseteq {RunText(r)}
       /\ Len(f.dialogue_lines) =
            Cardinality({i \in 1..Len(f.outcomes) : f.outcomes[i].result.has_output})
       /\ \A i \in 1..Len(f.prompts) :
            /\ TextsOf(f.prompts[i].conversation) \subseteq {RunText(r)}
            /\ Len(f.prompts[i].conversation) = (IF i - 1 < 6 THEN i - 1 ELSE 6)
       /\ f.dpc = "returned"
            => /\ Len(f.script.chapters) = 2 * f.num_exchanges
               /\ TextsOf(f.script.chapters) = {RunText(r)}

C21_Witness ==
  /\ current = 1 /\ dpc = "returned" /\ Len(script.chapters) = 4
  /\ frames[2].dpc = "thorne_run" /\ Len(frames[2].dialogue_lines) = 3
  /\ Len(frames[2].prompts) = 4

\* ------------------------------------------- debate: validation failures
\* The i-th speaker call came back with a turn whose text DialogueLine rejects.
RejectedTurn(i) ==
  /\ outcomes[i].result.some /\ outcomes[i].result.has_output
  /\ outcomes[i].result.output.text.core = 0

\* C22: a turn whose text is empty or whitespace-only is never retried: the
\* call that produced it is the last speaker call of the run, no sleep occurs,
\* and the run has failed at once.
C22_ValidationNeverRetried ==
  \A i \in 1..Len(outcomes) :
    RejectedTurn(i)
      => /\ i = Len(outcomes)
         /\ Len(prompts) = Len(outcomes)
         /\ \A c \in Calls : recorded_delays[c] = <<>> /\ func_calls[c] = <<>>
         /\ dpc = "raised"
         /\ error.kind = "DebateEngineError" /\ error.cause = "ValidationError"
         /\ script = NoScript

C22_Witness ==
  /\ Len(outcomes) = 4
  /\ RejectedTurn(4)
  /\ outcomes[4].result.output.text = BlankText
  /\ dpc = "raised"

\* C23: no transcript with zero turns is produced: a returned script has at
\* least one turn, and a run with num_exchanges = 0 ends in pydantic's
\* validation error without a script and without a speaker call.
C23_NoEmptyTranscript ==
  /\ dpc = "returned" => Len(script.chapters) >= 1 /\ script.valid
  /\ (num_exchanges = 0 /\ dpc # "idle")
       => /\ dpc = "raised"
          /\ error.kind = "ValidationError"
          /\ script = NoScript
          /\ prompts = <<>>

C23_Witness ==
  /\ num_exchanges = 0
  /\ dpc = "raised"
  /\ error.kind = "ValidationError"

\* ------------------------------------------------------- long debate runs
\* Runs long enough to reach the closing thresholds; the agents return one
\* text, or nothing, or raise.
LongResults == {NoneResult, WithOutput(DialogueLine("maya_vance", PlainText, "neutral"))}

InitLong ==
  /\ RetryIdle
  /\ ServicesIdle
  /\ max_attempts = 1 /\ base_delay = 0 /\ exceptions = {"Exception"}
  /\ DebateIdle
  /\ num_exchanges \in 0..MaxLongExchanges

NextLong ==
  \/ GenerateDebateCalled
  \/ \E r \in LongResults : MayaRunReturns(r)
  \/ \E k \in AgentErrorKinds : MayaRunRaises(k)
  \/ \E r \in LongResults : ThorneRunReturns(r)
  \/ \E k \in AgentErrorKinds : ThorneRunRaises(k)

SpecLong == InitLong /\ [][NextLong]_vars

\* The prompts of the run that carry the closing instruction.
ClosingPrompts == {i \in 1..Len(prompts) : prompts[i].instruction = "closing"}

\* C27: the closing instruction depends only on the number of turns already
\* generated: the prompt of turn i (i - 1 turns exist) is a closing one exactly
\* when i - 1 >= 28 for speaker A and i - 1 >= 29 for speaker B, whatever
\* num_exchanges is. So a run with E < 15 has none, a run with E = 15 has it
\* for its last two turns, and a run with E > 15 for every turn from the 29th.
C27_ClosingByTurnCount ==
  /\ \A i \in 1..Len(prompts) :
       (i \in ClosingPrompts)
         = (IF prompts[i].speaker = "maya" THEN i - 1 >= 28 ELSE i - 1 >= 29)
  /\ num_exchanges < 15 => ClosingPrompts = {}
  /\ dpc = "returned" /\ num_exchanges = 15 => ClosingPrompts = {29, 30}
  /\ dpc = "returned" /\ num_exchanges > 15 => ClosingPrompts = 29..(2 * num_exchanges)

C27_Witness ==
  /\ dpc = "returned"
  /\ num_exchanges = 16
  /\ Len(prompts) = 32
  /\ prompts[28].instruction = "continue"
  /\ prompts[29].instruction = "closing" /\ prompts[29].speaker = "maya"
  /\ prompts[32].instruction = "closing"

\* ------------------------------------------------- decorated service calls
\* A decorated operation is called from a service: a new wrapper invocation
\* with its own locals (retry.py:31-34) takes the place of the finished one.
CallDecorated(c) ==
  /\ rpc' = [rpc EXCEPT ![c] = "invoke"]
  /\ attempt' = [attempt EXCEPT ![c] = 0]
  /\ last_exception' = [last_exception EXCEPT ![c] = NoException]
  /\ recorded_delays' = [recorded_delays EXCEPT ![c] = <<>>]
  /\ func_calls' = [func_calls EXCEPT ![c] = <<>>]
  /\ result' = [result EXCEPT ![c] = NoValue]
  /\ raised' = [raised EXCEPT ![c] = NoException]
  /\ UNCHANGED <<max_attempts, base_delay, exceptions>>

\* ------------------------------------------- VideoService.generate_all_clips
\* What generate_clip raises: CreatomateAPIError (status not 200/201) and
\* VideoServiceError (no URL, HTTP error).
VideoErrorKinds == {"CreatomateAPIError", "VideoServiceError"}

\* The URLs Creatomate answers with.
Urls == {"url_a", "url_b"}

\* The i-th social hook of the script handed to generate_all_clips.
ClipHook(i) == Text(20 + i, 0, TRUE)

\* The scripts handed to generate_all_clips.
VideoScripts ==
  {[chapters |-> <<DialogueLine("maya_vance", PlainText, "neutral")>>,
    social_hooks |-> [i \in 1..n |-> ClipHook(i)], valid |-> TRUE] : n \in 0..MaxHooks}

\* video_urls.append(video_url)
CollectUrlFirst(urls, u) == <<u>> \o urls
CollectUrl(urls, u) == Append(urls, u)

\* except Exception as e: logger.error(...), go on with the remaining hooks
ClipExceptReraises(e) == "propagate"
ClipExcept(e) == IF IsSubclass(e.kind, "Exception") THEN "continue" ELSE "propagate"

\* The end of one iteration of the loop over the hooks: generate_clip for the
\* next hook, or, with the hooks exhausted, return video_urls.
NextClip ==
  IF hook_idx + 1 < Len(script.social_hooks)
    THEN /\ hook_idx' = hook_idx + 1
         /\ clip_calls' = Append(clip_calls, script.social_hooks[hook_idx + 2])
         /\ CallDecorated(1)
         /\ vpc' = "clip"
    ELSE /\ vpc' = "returned"
         /\ UNCHANGED <<hook_idx, clip_calls, retry_vars>>

\* generate_all_clips(script, audio_url) is called
GenerateAllClipsCalled ==
  /\ vpc = "idle"
  /\ video_urls' = <<>>
  /\ IF script.social_hooks = <<>>
       THEN /\ vpc' = "returned"
            /\ UNCHANGED <<hook_idx, clip_calls, retry_vars>>
       ELSE /\ hook_idx' = 0
            /\ clip_calls' = Append(clip_calls, script.social_hooks[1])
            /\ CallDecorated(1)
            /\ vpc' = "clip"
  /\ UNCHANGED <<clip_results, video_error>>
  /\ UNCHANGED <<debate_vars, run_vars, audio_vars, db_vars, job_vars>>

\* video_url = await self.generate_clip(hook, audio_url) returns
ClipReturns ==
  /\ vpc = "clip"
  /\ rpc[1] = "returned"
  /\ video_urls' = CollectUrl(video_urls, result[1])
  /\ clip_results' = Append(clip_results, [ok |-> TRUE, url |-> result[1],
                                           attempts |-> Len(func_calls[1])])
  /\ NextClip
  /\ UNCHANGED video_error
  /\ UNCHANGED <<debate_vars, run_vars, audio_vars, db_vars, job_vars>>

\* await self.generate_clip(hook, audio_url) raises
ClipRaises ==
  /\ vpc = "clip"
  /\ rpc[1] = "raised"
  /\ clip_results' = Append(clip_results, [ok |-> FALSE, url |-> "None",
                                           attempts |-> Len(func_calls[1])])
  /\ IF ClipExcept(raised[1]) = "continue"
       THEN /\ NextClip
            /\ UNCHANGED video_error
       ELSE /\ vpc' = "raised"
            /\ video_error' = raised[1].kind
            /\ UNCHANGED <<hook_idx, clip_calls, retry_vars>>
  /\ UNCHANGED video_urls
  /\ UNCHANGED <<debate_vars, run_vars, audio_vars, db_vars, job_vars>>

InitVideo ==
  /\ RetryIdle
  /\ ServicesIdle
  \* @with_retry(max_attempts=3, base_delay=1.0, exceptions=(CreatomateAPIError, Exception))
  /\ max_attempts = 3 /\ base_delay = 1 /\ exceptions = {"Exception"}
  /\ num_exchanges = 0 /\ dpc = "idle" /\ exchange_num = 0
  /\ dialogue_lines = <<>> /\ prompts = <<>> /\ outcomes = <<>>
  /\ error = NoError
  /\ script \in VideoScripts

NextVideo ==
  \/ GenerateAllClipsCalled
  \/ \E u \in Urls : vpc = "clip" /\ FuncReturns(1, u)
  \/ \E k \in VideoErrorKinds : vpc = "clip" /\ FuncRaises(1, k)
  \/ vpc = "clip" /\ SleepDone(1)
  \/ ClipReturns
  \/ ClipRaises

SpecVideo == InitVideo /\ [][NextVideo]_vars

\* ---------------------------------------------------- video: the claims
\* The generate_clip calls that have ended and succeeded.
ClipsSucceeded == {i \in 1..Len(clip_results) : clip_results[i].ok}

\* C24: with n >= 1 hooks and every generate_clip call succeeding,
\* generate_all_clips calls generate_clip once per hook in the hooks' order and
\* returns n URLs, the i-th being that of the i-th hook; with no hooks it
\* returns an empty list without calling generate_clip.
C24_OneClipPerHook ==
  LET n == Len(script.social_hooks)
  IN /\ ClipsSucceeded = 1..Len(clip_results)
          => /\ Len(clip_calls) <= n
             /\ \A i \in 1..Len(clip_calls) : clip_calls[i] = script.social_hooks[i]
             /\ vpc = "returned"
                  => /\ Len(clip_calls) = n
                     /\ Len(video_urls) = n
                     /\ \A i \in 1..n : video_urls[i] = clip_results[i].url
     /\ (n = 0 /\ vpc # "idle")
          => vpc = "returned" /\ clip_calls = <<>> /\ video_urls = <<>>

C24_Witness ==
  /\ vpc = "returned"
  /\ Len(script.social_hooks) = 3
  /\ ClipsSucceeded = {1, 2, 3}
  /\ video_urls = <<"url_a", "url_b", "url_a">>
  /\ clip_results[2].attempts = 2

AudioErrorKinds == {"ElevenLabsAPIError", "AudioServiceError"}

\* The audio data ElevenLabs answers with, as strings of bytes.
AudioBytes == {"", "a", "bc"}

\* The i-th dialogue line of the script handed to generate_episode.
EpisodeLine(i) ==
  DialogueLine(IF i % 2 = 1 THEN "maya_vance" ELSE "dr_aris_thorne",
               Text(10 + i, 0, FALSE), "neutral")

\* The scripts handed to generate_episode (PodcastScript has at least one line).
AudioScripts ==
  {[chapters |-> [i \in 1..n |-> EpisodeLine(i)], social_hooks |-> <<>>,
    valid |-> TRUE] : n \in 1..MaxChapters}

\* raise AudioServiceError(...), with the line the message names (0: none)
AudioServiceError(line) == [kind |-> "AudioServiceError", line |-> line]

\* _concatenate_audio(segments): b"".join(segments)
ConcatenateAudioLast(segments) ==
  IF segments = <<>> THEN "" ELSE segments[Len(segments)]
RECURSIVE ConcatenateAudio(_)
ConcatenateAudio(segments) ==
  IF segments = <<>> THEN ""
  ELSE Head(segments) \o ConcatenateAudio(Tail(segments))

\* except Exception as e: raise AudioServiceError(f"Failed to synthesize
\* dialogue line {idx + 1}: {e}")
SynthExceptZeroBased(e, idx) == AudioServiceError(idx)
SynthExcept(e, idx) ==
  IF IsSubclass(e.kind, "Exception") THEN AudioServiceError(idx + 1)
  ELSE [kind |-> e.kind, line |-> 0]

\* generate_episode(script) is called
GenerateEpisodeCalled ==
  /\ apc = "idle"
  /\ audio_segments' = <<>>
  /\ IF script.chapters = <<>>
       THEN /\ apc' = "raised"
            /\ audio_error' = AudioServiceError(0)
            /\ UNCHANGED <<line_idx, synth_calls, retry_vars>>
       ELSE /\ line_idx' = 0
            /\ synth_calls' = Append(synth_calls, script.chapters[1])
            /\ CallDecorated(1)
            /\ apc' = "synth"
            /\ UNCHANGED audio_error
  /\ UNCHANGED <<synth_results, uploads, audio_url>>
  /\ UNCHANGED <<debate_vars, run_vars, video_vars, db_vars, job_vars>>

\* audio_data = await self.synthesize_dialogue(line) returns: the segment is
\* kept and the loop goes on; after the last line the segments are joined and
\* handed to _upload_to_storage.
SynthesizeReturns ==
  /\ apc = "synth"
  /\ rpc[1] = "returned"
  /\ audio_segments' = Append(audio_segments, result[1])
  /\ synth_results' = Append(synth_results, [ok |-> TRUE, data |-> result[1],
                                             attempts |-> Len(func_calls[1])])
  /\ IF line_idx + 1 < Len(script.chapters)
       THEN /\ line_idx' = line_idx + 1
            /\ synth_calls' = Append(synth_calls, script.chapters[line_idx + 2])
            /\ CallDecorated(1)
            /\ apc' = "synth"
            /\ UNCHANGED <<uploads, audio_error>>
       ELSE /\ IF ConcatenateAudio(audio_segments') = ""
                 THEN /\ apc' = "raised"
                      /\ audio_error' = AudioServiceError(0)
                      /\ UNCHANGED uploads
                 ELSE /\ uploads' = Append(uploads, ConcatenateAudio(audio_segments'))
                      /\ apc' = "upload"
                      /\ UNCHANGED audio_error
            /\ UNCHANGED <<line_idx, synth_calls, retry_vars>>
  /\ UNCHANGED audio_url
  /\ UNCHANGED <<debate_vars, run_vars, video_vars, db_vars, job_vars>>

\* await self.synthesize_dialogue(line) raises
SynthesizeRaises ==
  /\ apc = "synth"
  /\ rpc[1] = "raised"
  /\ synth_results' = Append(synth_results, [ok |-> FALSE, data |-> "",
                                             attempts |-> Len(func_calls[1])])
  /\ apc' = "raised"
  /\ audio_error' = SynthExcept(raised[1], line_idx)
  /\ UNCHANGED <<line_idx, audio_segments, synth_calls, uploads, audio_url>>
  /\ UNCHANGED <<retry_vars, debate_vars, run_vars, video_vars, db_vars, job_vars>>

\* audio_url = await self._upload_to_storage(script.script_id, full_audio) returns
UploadReturns(url) ==
  /\ apc = "upload"
  /\ apc' = "returned"
  /\ audio_url' = url
  /\ UNCHANGED <<line_idx, audio_segments, synth_calls, synth_results, uploads,
                 audio_error>>
  /\ UNCHANGED <<retry_vars, debate_vars, run_vars, video_vars, db_vars, job_vars>>

\* _upload_to_storage raises AudioServiceError (audio.py:190, 204, 213)
UploadRaises ==
  /\ apc = "upload"
  /\ apc' = "raised"
  /\ audio_error' = AudioServiceError(0)
  /\ UNCHANGED <<line_idx, audio_segments, synth_calls, synth_results, uploads,
                 audio_url>>
  /\ UNCHANGED <<retry_vars, debate_vars, run_vars, video_vars, db_vars, job_vars>>

InitAudio ==
  /\ RetryIdle
  /\ ServicesIdle
  \* @with_retry(max_attempts=3, base_delay=1.0, exceptions=(ElevenLabsAPIError, Exception))
  /\ max_attempts = 3 /\ base_delay = 1 /\ exceptions = {"Exception"}
  /\ num_exchanges = 0 /\ dpc = "idle" /\ exchange_num = 0
  /\ dialogue_lines = <<>> /\ prompts = <<>> /\ outcomes = <<>>
  /\ error = NoError
  /\ script \in AudioScripts

NextAudio ==
  \/ GenerateEpisodeCalled
  \/ \E b \in AudioBytes : apc = "synth" /\ FuncReturns(1, b)
  \/ \E k \in AudioErrorKinds : apc = "synth" /\ FuncRaises(1, k)
  \/ apc = "synth" /\ SleepDone(1)
  \/ SynthesizeReturns
  \/ SynthesizeRaises
  \/ \E url \in Urls : UploadReturns(url)
  \/ UploadRaises

SpecAudio == InitAudio /\ [][NextAudio]_vars

\* ---------------------------------------------------- audio: the claims
\* The synthesize_dialogue calls that have ended and failed.
SynthFailed == {i \in 1..Len(synth_results) : ~synth_results[i].ok}

\* The segments joined from the last one backwards.
RECURSIVE Joined(_)
Joined(segs) ==
  IF segs = <<>> THEN ""
  ELSE Joined(SubSeq(segs, 1, Len(segs) - 1)) \o segs[Len(segs)]

RECURSIVE TotalLength(_)
TotalLength(segs) ==
  IF segs = <<>> THEN 0 ELSE Len(Head(segs)) + TotalLength(Tail(segs))

\* C25: when no synthesis fails, generate_episode hands every dialogue line to
\* synthesize_dialogue exactly once, in chapter order, and the audio it uploads
\* is the concatenation of the per-line segments in that order, its length the
\* sum of the segment lengths.
C25_SequentialAndConcatenated ==
  LET n == Len(script.chapters)
  IN SynthFailed = {}
       => /\ Len(synth_calls) <= n
          /\ \A i \in 1..Len(synth_calls) : synth_calls[i] = script.chapters[i]
          /\ \A i \in 1..Len(synth_results) : audio_segments[i] = synth_results[i].data
          /\ (apc \in {"upload", "returned", "raised"}) => Len(synth_results) = n
          /\ Len(uploads) <= 1
          /\ apc \in {"upload", "returned"} => Len(uploads) = 1
          /\ \A u \in 1..Len(uploads) :
               /\ Len(audio_segments) = n
               /\ uploads[u] = Joined(audio_segments)
               /\ Len(uploads[u]) = TotalLength(audio_segments)

C25_Witness ==
  /\ apc = "returned"
  /\ Len(script.chapters) = 3
  /\ audio_segments = <<"bc", "", "a">>
  /\ uploads = <<"bca">>

\* C30: when the synthesis of a line fails (after the three attempts of
\* synthesize_dialogue), generate_episode raises AudioServiceError naming that
\* line (counted from 1), no later line is synthesized and nothing is uploaded;
\* an upload happens only after every line has been synthesized successfully.
C30_FailedLineStopsEpisode ==
  /\ \A i \in SynthFailed :
       /\ i = Len(synth_results) /\ i = Len(synth_calls)
       /\ synth_results[i].attempts = 3
       /\ apc = "raised"
       /\ audio_error = AudioServiceError(i)
       /\ uploads = <<>>
       /\ audio_url = "None"
  /\ uploads # <<>>
       => /\ Len(synth_results) = Len(script.chapters)
          /\ SynthFailed = {}

C30_Witness ==
  /\ Len(script.chapters) = 3
  /\ SynthFailed = {2}
  /\ Len(synth_calls) = 2
  /\ audio_error = AudioServiceError(2)
  /\ apc = "raised"

\* ---------------------------------------------------------- DatabaseService
\* The Supabase client is taken as the table store the tests run the service
\* on: insert adds a row, select answers with the rows that match the eq
\* filter, in insertion order.
CaseIds == {"case-1", "case-2", "case-3"}
Locations == {"Ohio", "Texas"}

\* The Evidence item of the case with the given id.
EvidenceOf(id) ==
  [evidence_id |-> <<"ev", id>>, description |-> "description",
   evidence_type |-> "physical", source_url |-> "None"]

\* CaseFile(case_id, title, location, date_occurred, raw_content,
\* evidence_list, source_urls, created_at)
CaseFile(id, location, evidence_list) ==
  [case_id |-> id, title |-> "title", location |-> location,
   date_occurred |-> "None", raw_content |-> "content",
   evidence_list |-> evidence_list, source_urls |-> <<>>,
   created_at |-> [datetime |-> 1]]

CaseFiles ==
  UNION {{CaseFile(id, l, <<>>), CaseFile(id, l, <<EvidenceOf(id)>>)} :
           id \in CaseIds, l \in Locations}

\* created_at.isoformat() and datetime.fromisoformat(...)
IsoFormat(t) == [iso |-> t.datetime]
FromIsoFormat(text) == [datetime |-> text.iso]

\* case_data of create_case: the row of table "cases"
CaseRow(case) ==
  [case_id |-> case.case_id, title |-> case.title, location |-> case.location,
   date_occurred |-> case.date_occurred, raw_content |-> case.raw_content,
   source_urls |-> case.source_urls, created_at |-> IsoFormat(case.created_at)]

\* evidence_data of _create_evidence: the row of table "evidence"
EvidenceRow(case_id, evidence) ==
  [evidence_id |-> evidence.evidence_id, case_id |-> case_id,
   description |-> evidence.description, evidence_type |-> evidence.evidence_type,
   source_url |-> evidence.source_url]

\* table.select("*").eq(field, value).execute().data
SelectAll(table, field, value) == table
SelectEq(table, field, value) == SelectSeq(table, LAMBDA row : row[field] = value)

\* execute() of a query: the rows, or an exception when the client fails.
QueryOutcomes == {"answered", "raised"}

\* get_case(case_id): None (the empty sequence) or the CaseFile rebuilt from
\* the first matching row and the evidence rows of the case; None as well when
\* a query raises (except Exception: return None).
GetCaseValue(case_id, outcome) ==
  LET data == SelectEq(cases_table, "case_id", case_id)
      evidence_data == SelectEq(evidence_table, "case_id", case_id)
  IN IF outcome = "raised" \/ data = <<>> THEN <<>>
     ELSE << [case_id |-> data[1].case_id, title |-> data[1].title,
              location |-> data[1].location,
              date_occurred |-> data[1].date_occurred,
              raw_content |-> data[1].raw_content,
              evidence_list |->
                [i \in 1..Len(evidence_data) |->
                   [evidence_id |-> evidence_data[i].evidence_id,
                    description |-> evidence_data[i].description,
                    evidence_type |-> evidence_data[i].evidence_type,
                    source_url |-> evidence_data[i].source_url]],
              source_urls |-> data[1].source_urls,
              created_at |-> FromIsoFormat(data[1].created_at)] >>

\* The loop of get_cases_by_location: get_case for each row, kept if not None;
\* failing is the set of case ids whose get_case meets a raising query.
RECURSIVE CasesOfRows(_, _)
CasesOfRows(rows, failing) ==
  IF rows = <<>> THEN <<>>
  ELSE GetCaseValue(Head(rows).case_id,
                    IF Head(rows).case_id \in failing THEN "raised" ELSE "answered")
         \o CasesOfRows(Tail(rows), failing)

\* create_case(case): the row of the case, then one row per evidence item.
\* fails_at names the insert that raises (or answers without data): "none",
\* "case" or "evidence"; what was inserted before stays. The calls are made
\* with case_ids not used before (what a second row of the same case_id does
\* is up to the key of the table, which the repository does not define).
CreateCase(case, fails_at) ==
  /\ \A i \in 1..Len(created_cases) : created_cases[i].case.case_id # case.case_id
  /\ fails_at = "evidence" => case.evidence_list # <<>>
  /\ cases_table' = IF fails_at = "case" THEN cases_table
                    ELSE Append(cases_table, CaseRow(case))
  /\ evidence_table' = IF fails_at = "none"
                         THEN evidence_table \o
                                [i \in 1..Len(case.evidence_list) |->
                                   EvidenceRow(case.case_id, case.evidence_list[i])]
                         ELSE evidence_table
  /\ created_cases' = Append(created_cases, [case |-> case, returned |-> fails_at = "none"])
  /\ db_result' = [op |-> "create_case", arg |-> case.case_id, value |-> <<>>,
                   failed |-> fails_at # "none"]
  /\ UNCHANGED <<retry_vars, debate_vars, run_vars, video_vars, audio_vars, job_vars>>

\* get_case(case_id)
GetCase(case_id, outcome) ==
  /\ db_result' = [op |-> "get_case", arg |-> case_id,
                   value |-> GetCaseValue(case_id, outcome),
                   failed |-> outcome = "raised"]
  /\ UNCHANGED <<cases_table, evidence_table, created_cases>>
  /\ UNCHANGED <<retry_vars, debate_vars, run_vars, video_vars, audio_vars, job_vars>>

\* The case ids whose get_case, called from get_cases_by_location, meets a
\* raising query: none, or one of them.
FailingQueries == {{}} \cup {{id} : id \in CaseIds}

\* get_cases_by_location(location): [] when the location query raises
\* (except Exception: return []).
GetCasesByLocation(location, outcome, failing) ==
  /\ outcome = "raised" => failing = {}
  /\ db_result' = [op |-> "get_cases_by_location", arg |-> location,
                   value |-> IF outcome = "raised" THEN <<>>
                             ELSE CasesOfRows(SelectEq(cases_table, "location", location),
                                              failing),
                   failed |-> outcome = "raised" \/ failing # {}]
  /\ UNCHANGED <<cases_table, evidence_table, created_cases>>
  /\ UNCHANGED <<retry_vars, debate_vars, run_vars, video_vars, audio_vars, job_vars>>

InitDb ==
  /\ RetryIdle
  /\ ServicesIdle
  /\ max_attempts = 1 /\ base_delay = 0 /\ exceptions = {"Exception"}
  /\ DebateIdle
  /\ num_exchanges = 0

NextDb ==
  \/ \E case \in CaseFiles, f \in {"none", "case", "evidence"} : CreateCase(case, f)
  \/ \E id \in CaseIds, o \in QueryOutcomes : GetCase(id, o)
  \/ \E l \in Locations, o \in QueryOutcomes, failing \in FailingQueries :
       GetCasesByLocation(l, o, failing)

SpecDb == InitDb /\ [][NextDb]_vars

\* ------------------------------------------------- database: the claim
\* The create_case calls made so far had distinct case_ids.
DistinctCaseIds ==
  \A i, j \in 1..Len(created_cases) :
    created_cases[i].case.case_id = created_cases[j].case.case_id => i = j

\* The cases stored so far: those whose create_case call returned.
StoredCases ==
  {created_cases[i].case : i \in {k \in 1..Len(created_cases) : created_cases[k].returned}}

\* No create_case call so far has raised.
AllCreatesReturned == \A i \in 1..Len(created_cases) : created_cases[i].returned

\* What the claim says of the answer of the last query.
AnswerIsStoredCases ==
  /\ db_result.op = "get_cases_by_location"
       => LET v == db_result.value
              matching == {c \in StoredCases : c.location = db_result.arg}
          IN /\ {v[i] : i \in 1..Len(v)} = matching
             /\ Len(v) = Cardinality(matching)
  /\ db_result.op = "get_case"
       => LET found == {c \in StoredCases : c.case_id = db_result.arg}
          IN IF found = {} THEN db_result.value = <<>>
             ELSE /\ Len(db_result.value) = 1
                  /\ db_result.value[1] \in found

JobTypes == {"crawl", "debate", "audio"}

FirstStep(type) ==
  CASE type = "crawl" -> "search_cold_cases"
    [] type = "debate" -> "get_case"
    [] type = "audio" -> "get_script"

\* The step after a step of the debate or audio job; "end" after the last.
NextStep(step) ==
  CASE step = "get_case" -> "generate_debate"
    [] step = "generate_debate" -> "persist_script"
    [] step = "persist_script" -> "end"
    [] step = "get_script" -> "generate_episode"
    [] step = "generate_episode" -> "create_media"
    [] step = "create_media" -> "end"

\* get_case and get_script answer None instead of raising.
LookupSteps == {"get_case", "get_script"}

\* The steps that raise to the job: CrawlerError, AgentResponseError,
\* DebateEngineError, AudioServiceError, DatabaseError.
RaisingSteps ==
  {"search_cold_cases", "generate_debate", "persist_script",
   "generate_episode", "create_media"}

\* The steps that wait (on the crawler, an agent or the speech client), where
\* a cancellation of the task is delivered; the database calls do not wait.
SuspendingSteps == {"search_cold_cases", "generate_debate", "generate_episode"}

\* update_job_status(job_id, status): the row takes the status when the
\* update goes through; a failing update is logged and answers False.
UpdateJobStatus(j, status, updated) ==
  [j EXCEPT !.status = IF updated THEN status ELSE @]

\* except Exception as e: await db.update_job_status(job_id, "failed", ...)
UpdateOnExceptionCompleted == "completed"
UpdateOnException == "failed"

\* await db.update_job_status(job_id, "completed", result_id=...): the run
\* returns.
Completed(j, result_id, updated) ==
  /\ status_updates' = Append(status_updates, "completed")
  /\ job' = [UpdateJobStatus(j, "completed", updated)
               EXCEPT !.step = "end", !.result_id = result_id]
  /\ jpc' = "done"

\* The handler of the job: the step that raised, then the update.
JobExcept(step, updated) ==
  /\ step_failures' = Append(step_failures, step)
  /\ status_updates' = Append(status_updates, UpdateOnException)
  /\ job' = UpdateJobStatus(job, UpdateOnException, updated)
  /\ jpc' = "done"

\* await db.update_job_status(job_id, "processing")
JobStarted(updated) ==
  /\ jpc = "start"
  /\ status_updates' = Append(status_updates, "processing")
  /\ job' = [UpdateJobStatus(job, "processing", updated)
               EXCEPT !.step = FirstStep(job.type)]
  /\ jpc' = "running"
  /\ UNCHANGED step_failures
  /\ UNCHANGED <<retry_vars, debate_vars, run_vars, video_vars, audio_vars, db_vars>>

\* cases = await crawler.search_cold_cases(query, limit) returns found cases;
\* with none the loop is empty and the job completes with result_id None.
SearchReturns(found, updated) ==
  /\ jpc = "running"
  /\ job.step = "search_cold_cases"
  /\ IF found = 0
       THEN Completed(job, 0, updated)
       ELSE /\ updated
            /\ job' = [job EXCEPT !.step = "persist_case", !.found = found,
                                  !.cases = found]
            /\ UNCHANGED <<jpc, status_updates>>
  /\ UNCHANGED step_failures
  /\ UNCHANGED <<retry_vars, debate_vars, run_vars, video_vars, audio_vars, db_vars>>

\* The end of one round of "for case in cases": the next case, or after the
\* last one result_id = case_ids[0] if case_ids else None and the update.
CaseDone(case_ids, updated) ==
  IF job.cases = 1
    THEN Completed([job EXCEPT !.cases = 0, !.case_ids = case_ids],
                   IF case_ids # <<>> THEN case_ids[1] ELSE 0, updated)
    ELSE /\ updated
         /\ job' = [job EXCEPT !.cases = @ - 1, !.case_ids = case_ids]
         /\ UNCHANGED <<jpc, status_updates>>

\* case_id = await crawler.persist_case(case); case_ids.append(case_id)
PersistCaseReturns(updated) ==
  /\ jpc = "running"
  /\ job.step = "persist_case"
  /\ CaseDone(Append(job.case_ids, job.found - job.cases + 1), updated)
  /\ UNCHANGED step_failures
  /\ UNCHANGED <<retry_vars, debate_vars, run_vars, video_vars, audio_vars, db_vars>>

\* except Exception as e: logger.warning(...); continue
PersistCaseRaises(updated) ==
  /\ jpc = "running"
  /\ job.step = "persist_case"
  /\ step_failures' = Append(step_failures, "persist_case")
  /\ CaseDone(job.case_ids, updated)
  /\ UNCHANGED <<retry_vars, debate_vars, run_vars, video_vars, audio_vars, db_vars>>

\* A step of the debate or audio job returns a value; after the last one the
\* job completes with the script_id or media_id.
StepReturns(updated) ==
  /\ jpc = "running"
  /\ job.step \in LookupSteps \cup (RaisingSteps \ {"search_cold_cases"})
  /\ IF NextStep(job.step) = "end"
       THEN Completed(job, 1, updated)
       ELSE /\ updated
            /\ job' = [job EXCEPT !.step = NextStep(job.step)]
            /\ UNCHANGED <<jpc, status_updates>>
  /\ UNCHANGED step_failures
  /\ UNCHANGED <<retry_vars, debate_vars, run_vars, video_vars, audio_vars, db_vars>>

\* if not case: raise ValueError(...) / if not script: raise ValueError(...)
LookupReturnsNone(updated) ==
  /\ jpc = "running"
  /\ job.step \in LookupSteps
  /\ JobExcept(job.step, updated)
  /\ UNCHANGED <<retry_vars, debate_vars, run_vars, video_vars, audio_vars, db_vars>>

\* A step raises an Exception to the job.
StepRaises(updated) ==
  /\ jpc = "running"
  /\ job.step \in RaisingSteps
  /\ JobExcept(job.step, updated)
  /\ UNCHANGED <<retry_vars, debate_vars, run_vars, video_vars, audio_vars, db_vars>>

\* The task is cancelled while a step waits: CancelledError is not an
\* Exception, no handler of the job catches it.
StepCancelled ==
  /\ jpc = "running"
  /\ job.step \in SuspendingSteps
  /\ jpc' = "cancelled"
  /\ UNCHANGED <<job, status_updates, step_failures>>
  /\ UNCHANGED <<retry_vars, debate_vars, run_vars, video_vars, audio_vars, db_vars>>

InitJobs ==
  /\ RetryIdle
  /\ max_attempts = 1 /\ base_delay = 0 /\ exceptions = {"Exception"}
  /\ DebateIdle
  /\ num_exchanges = 0
  /\ RunsIdle /\ VideoIdle /\ AudioIdle /\ DbIdle
  /\ jpc = "start"
  /\ \E type \in JobTypes :
       job = [type |-> type, step |-> "None", status |-> "pending",
              found |-> 0, cases |-> 0, case_ids |-> <<>>, result_id |-> 0]
  /\ status_updates = <<>>
  /\ step_failures = <<>>

NextJobs ==
  \/ \E updated \in BOOLEAN : JobStarted(updated)
  \/ \E found \in 0..MaxLimit, updated \in BOOLEAN : SearchReturns(found, updated)
  \/ \E updated \in BOOLEAN : PersistCaseReturns(updated)
  \/ \E updated \in BOOLEAN : PersistCaseRaises(updated)
  \/ \E updated \in BOOLEAN : StepReturns(updated)
  \/ \E updated \in BOOLEAN : LookupReturnsNone(updated)
  \/ \E updated \in BOOLEAN : StepRaises(updated)
  \/ StepCancelled

SpecJobs == InitJobs /\ [][NextJobs]_vars

\* ------------------------------------------------ background jobs: the claim
TerminalUpdates == {"completed", "failed"}

\* 'processing' comes first and every later update is terminal.
ProcessingFirst ==
  \A i \in 1..Len(status_updates) :
    IF i = 1 THEN status_updates[i] = "processing"
    ELSE status_updates[i] \in TerminalUpdates

\* 'failed' is never issued after 'completed'.
NoFailedAfterCompleted ==
  \A i, j \in 1..Len(status_updates) :
    (i < j /\ status_updates[i] = "completed") => status_updates[j] # "failed"

\* The run has ended: it returned, or an exception left it.
RunEnded == jpc \in {"done", "cancelled"}

IsCompleted == \E i \in 1..Len(status_updates) : status_updates[i] = "completed"

\* The failing steps other than the persist_case calls of the crawl job.
FailuresOutsidePersist ==
  {i \in 1..Len(step_failures) : step_failures[i] # "persist_case"}

\* C28 (as amended): every run of a background job issues 'processing' first,
\* then at most one terminal update, 'completed' or 'failed'; 'failed' is never
\* issued after 'completed'; 'completed' is never issued after a failing step
\* other than a persist_case call of the crawl job, whose failure is logged and
\* skipped; a run that is not cancelled never ends without exactly one terminal
\* update, and a cancelled run ends with 'processing' as its only update.
C28_ProcessingThenTerminalUnlessCancelled ==
  /\ ProcessingFirst
  /\ Len(status_updates) <= 2
  /\ NoFailedAfterCompleted
  /\ IsCompleted => FailuresOutsidePersist = {}
  /\ jpc = "done" => Len(status_updates) = 2
  /\ jpc = "cancelled" => status_updates = <<"processing">>

C28_Witness ==
  /\ job.type = "crawl"
  /\ jpc = "done"
  /\ job.found = MaxLimit
  /\ step_failures = <<"persist_case">>
  /\ job.result_id = 2
  /\ status_updates = <<"processing", "completed">>
  /\ job.status = "completed"

\* C28 (as stated): every run of a background job issues 'processing' first,
\* then exactly one terminal update, 'completed' or 'failed'; 'failed' is never
\* issued after 'completed', 'completed' is never issued after a failing step,
\* and once 'processing' has been issued the run never ends without a terminal
\* update.
C28_ProcessingThenOneTerminal ==
  /\ ProcessingFirst
  /\ Len(status_updates) <= 2
  /\ NoFailedAfterCompleted
  /\ IsCompleted => step_failures = <<>>
  /\ RunEnded => Len(status_updates) = 2

====
